---- MODULE Spec2Model ----
(***************************************************************************)
(* Model of o365.py: a batch runner that reads user actions from a JSON    *)
(* file, performs create / update / delete against the Graph API and       *)
(* writes one CSV result row per action.                                   *)
(*                                                                         *)
(* The remote services are the environment: every HTTP exchange is one     *)
(* step whose reply (a status, or a transport exception) is chosen freely. *)
(* A step runs the code from one network call up to the next one, or up to *)
(* the row's writer.writerow when the handler returns.                     *)
(***************************************************************************)
EXTENDS Integers, Sequences, FiniteSets, TLC

\* ------------------------------------------------------------------ bounds
MaxRows == 2

\* ------------------------------------------------------- o365settings.py
API_VERSION == "1.6"
O365DOMAIN == ""
STUPATTERN == ""
STULICENSE == ""
EMPLICENSE == ""
DISABLEDPLANS == <<"", "">>

\* ------------------------------------------------------------- sentinels
None == "<None>"                 \* Python None (ACCESS_TOKEN before login)
Unbound == "<unbound>"           \* a local name that was never assigned
NoAccessToken == "<no access_token>"  \* login body without 'access_token'

LoginHost == "login.windows.net"
GraphHost == "graph.windows.net"

\* ------------------------------------------------------------ input rows
AllKeys == {"action", "username", "newusername", "loginDisabled", "UDCid",
            "givenName", "fullName", "sn", "primO", "userPassword"}

Row(ac, un, nn, ld, id, gn, fn, sn, ou, pw) ==
    [action |-> ac, username |-> un, newusername |-> nn,
     loginDisabled |-> ld, UDCid |-> id, givenName |-> gn, fullName |-> fn,
     sn |-> sn, primO |-> ou, userPassword |-> pw]

\* a JSON object that lacks the keys K
Without(row, K) == [k \in (DOMAIN row) \ K |-> row[k]]

Plain(action, username, newusername) ==
    Row(action, username, newusername, "False", "15", "John", "John T",
        "T", "Biology", "pw")

\* rows used in lists of several rows
BatchRows ==
    { Plain("create", "a", "a"),
      Plain("update", "a", "a"),
      Plain("update", "a", "b"),
      Plain("delete", "a", "a"),
      Plain("bogus", "x", "x"),
      Row("create", "a", "a", "False", "15", "John", "John T", "T",
          "Biology", ""),
      Without(Plain("delete", "a", "a"), {"username"}) }

\* rows used alone: every combination of empty and non-empty fields
FieldRows ==
    { Row(ac, un, nn, ld, id, gn, fn, sn, ou, pw) :
        ac \in {"create", "update", "delete", "bogus"},
        un \in {"", "a"}, nn \in {"", "a", "b"},
        ld \in {"", "True", "False", "true"}, id \in {"", "15"},
        gn \in {"", "John"}, fn \in {"", "John T"}, sn \in {"", "T"},
        ou \in {"", "Biology"}, pw \in {"", "pw"} }

\* rows used alone: one key absent from the JSON object
KeylessRows ==
    { Without(Plain(ac, "a", nn), {k}) :
        ac \in {"create", "update", "delete", "bogus"}, nn \in {"a", "b"},
        k \in AllKeys }

Inputs ==
    UNION { [1..n -> BatchRows] : n \in 0..MaxRows }
      \cup { <<r>> : r \in FieldRows \cup KeylessRows }

\* ------------------------------------------------------ replies, requests
Statuses == {200, 201, 204, 404}

Reply(status, body) == [exc |-> FALSE, status |-> status, body |-> body]
Exc == [exc |-> TRUE, status |-> 0, body |-> ""]

\* answers of the MSFT login service
AuthReplies ==
    { Reply(200, "tok"), Reply(200, ""), Reply(200, NoAccessToken),
      Reply(404, ""), Exc }

\* answers of the Graph API
GraphReplies == { Reply(s, "") : s \in Statuses } \cup { Exc }

Params == "api-version=" \o API_VERSION

Request(host, method, path, bearer, body, reply) ==
    [host |-> host, method |-> method, path |-> path, bearer |-> bearer,
     body |-> body, reply |-> reply]

VARIABLES
    reader,        \* reader["useractions"]: the list of input rows
    pc,            \* where main is: start, loop, auth, find, find2,
                   \*   submit, license, done, crashed
    i,             \* 1-based position of the row the for loop is at
    ACCESS_TOKEN,  \* the module global
    newupn,        \* update's local newupn
    output,        \* rows written by writer.writerow after the header
    calls,         \* HTTP requests sent for the current row, with replies
    authLog,       \* replies of every token exchange of the run
    files          \* f_in and f_out: unopened, open, closed, or the open
                   \*   that raised IOError

vars ==
    <<reader, pc, i, ACCESS_TOKEN, newupn, output, calls, authLog, files>>

\* ---------------------------------------------------------------- helpers
\* Python truth value of ACCESS_TOKEN: None and '' are false
Truthy(tok) == tok # None /\ tok # ""

\* pattern in s, for strings
Contains(pattern, s) ==
    \E k \in 0..(Len(s) - Len(pattern)) :
        SubSeq(s, k + 1, k + Len(pattern)) = pattern

StartsWith(s, prefix) ==
    Len(s) >= Len(prefix) /\ SubSeq(s, 1, Len(prefix)) = prefix

getUserType(username) ==
    IF Contains(STUPATTERN, username) THEN "STU" ELSE "EMP"

Upn(username) == username \o "@" \o O365DOMAIN

UsersPath == "/" \o O365DOMAIN \o "/users?" \o Params
UserPath(upn) == "/" \o O365DOMAIN \o "/users/" \o upn \o "?" \o Params
LicensePath(upn) ==
    "/" \o O365DOMAIN \o "/users/" \o upn \o "/assignLicense?" \o Params
TokenPath == "/" \o O365DOMAIN \o "/oauth2/token?" \o Params

\* the keys main reads from a row before and after calling the handler
KeysRead(row) ==
    IF "action" \notin DOMAIN row THEN {"action"}
    ELSE IF row.action = "create"
      THEN {"action", "username", "loginDisabled", "UDCid", "givenName",
            "fullName", "sn", "primO", "userPassword"}
    ELSE IF row.action = "update"
      THEN {"action", "username", "newusername", "loginDisabled",
            "givenName", "fullName", "sn", "primO"}
    ELSE {"action", "username"}

\* row[key] raises KeyError somewhere in the loop body
RaisesKeyError(row) == ~ (KeysRead(row) \subseteq DOMAIN row)

\* locals() at the top of create and of update
createParams(row) ==
    [username |-> row.username, loginDisabled |-> row.loginDisabled,
     UDCid |-> row.UDCid, givenName |-> row.givenName,
     fullName |-> row.fullName, sn |-> row.sn, ou |-> row.primO,
     userPassword |-> row.userPassword]

updateParams(row) ==
    [username |-> row.username, newusername |-> row.newusername,
     loginDisabled |-> row.loginDisabled, givenName |-> row.givenName,
     fullName |-> row.fullName, sn |-> row.sn, ou |-> row.primO]

deleteParams(row) == [username |-> row.username]

\* variant: the validation loop skips ou
MissingItems_SkipOu(params) ==
    { k \in (DOMAIN params) \ {"ou"} : params[k] = "" }

\* the parameters the validation loop can stop at
MissingItems(params) == { k \in DOMAIN params : params[k] = "" }

MissingResult(item) ==
    "ERROR: Missing an expected input value for " \o item
      \o " in input file."

AuthError == "ERROR: unable to authenticate to MSFT login service."
TakenError == "ERROR: username already taken!"
NotFoundError == "ERROR: user could not be found in o365!"
UnrecognizedError == "ERROR: Unrecognized action."

\* ACCESS_TOKEN after graphConnect() got this reply
graphConnect(tok, reply) ==
    IF ~ reply.exc /\ reply.status = 200 /\ reply.body # NoAccessToken
    THEN reply.body ELSE tok

\* return value of findUser() for this reply
findUser(reply) ==
    IF reply.exc THEN TRUE ELSE reply.status = 200

\* variant: the test after graphConnect() is left out
tokenCheck_NeverFails(tok) == ""

\* result of a handler after its token test; "" when it goes on
tokenCheck(tok) == IF ~ Truthy(tok) THEN AuthError ELSE ""

\* variant: create does not stop on an existing user
createLookup_Ignored(found) == ""

\* result of create after findUser(upn); "" when it goes on
createLookup(found) == IF found THEN TakenError ELSE ""

\* variant: update does not stop on an absent user
updateLookup_Ignored(found) == ""

\* result of update after findUser(upn); "" when it goes on
updateLookup(found) == IF ~ found THEN NotFoundError ELSE ""

\* variant: update does not stop when the new name is taken
renameLookup_Ignored(found) == ""

\* result of update after findUser(newupn); "" when it goes on
renameLookup(found) == IF found THEN TakenError ELSE ""

\* variant: delete does not stop on an absent user
deleteLookup_Ignored(found) == ""

\* result of delete after findUser(upn); "" when it goes on
deleteLookup(found) == IF ~ found THEN NotFoundError ELSE ""

\* variant: the POST is taken as successful on 200 as well
createResult_Accepts200(reply) ==
    IF reply.exc THEN "ERROR: could not create o365 user."
    ELSE IF reply.status \notin {200, 201}
      THEN "ERROR: user could not be created in o365."
    ELSE ""

\* variant: the status test of the POST is inverted
createResult_Inverted(reply) ==
    IF reply.exc THEN "ERROR: could not create o365 user."
    ELSE IF reply.status = 201
      THEN "ERROR: user could not be created in o365."
    ELSE ""

\* result of create after the POST /users exchange; "" when it goes on
createResult(reply) ==
    IF reply.exc THEN "ERROR: could not create o365 user."
    ELSE IF reply.status # 201
      THEN "ERROR: user could not be created in o365."
    ELSE ""

\* variant: a failed license assignment is reported as an error
licenseResult_Error(reply) ==
    IF reply.exc THEN "ERROR: could not create o365 user."
    ELSE IF reply.status # 200
      THEN "ERROR: user added but with no licenses in o365."
    ELSE "SUCCESS: user was created in o365."

\* result of create after the assignLicense exchange
licenseResult(reply) ==
    IF reply.exc THEN "ERROR: could not create o365 user."
    ELSE IF reply.status # 200
      THEN "SUCCESS: user added but with no licenses in o365."
    ELSE "SUCCESS: user was created in o365."

\* result of update after the PATCH exchange
updateResult(reply) ==
    IF reply.exc THEN "ERROR: Could not update o365 user."
    ELSE IF reply.status # 204 THEN "ERROR: could not update user in o365."
    ELSE "SUCCESS: user was updated in o365."

\* variant: the DELETE is taken as successful on 200 as well
deleteResult_Accepts200(reply) ==
    IF reply.exc THEN "ERROR: Could not delete o365 user."
    ELSE IF reply.status \notin {200, 204}
      THEN "ERROR: could not delete user in o365."
    ELSE "SUCCESS: user deleted in o365."

\* result of delete after the DELETE exchange
deleteResult(reply) ==
    IF reply.exc THEN "ERROR: Could not delete o365 user."
    ELSE IF reply.status # 204 THEN "ERROR: could not delete user in o365."
    ELSE "SUCCESS: user deleted in o365."

\* variant: loginDisabled is copied instead of flipped
accountEnabled_NotFlipped(loginDisabled) ==
    IF loginDisabled = "True" THEN "True" ELSE "False"

\* update flips loginDisabled
accountEnabled(loginDisabled) ==
    IF loginDisabled = "True" THEN "False" ELSE "True"

createBody(row) ==
    [userPrincipalName |-> Upn(row.username), accountEnabled |-> "true",
     givenName |-> row.givenName, displayName |-> row.fullName,
     surname |-> row.sn, mailNickname |-> row.username,
     department |-> row.primO, immutableId |-> row.UDCid,
     passwordProfile |-> [password |-> row.userPassword,
                          forceChangePasswordNextLogin |-> "false"],
     passwordPolicies |-> "DisablePasswordExpiration",
     usageLocation |-> "US"]

licenseBody(username) ==
    [addLicenses |->
        << [disabledPlans |-> DISABLEDPLANS,
            skuId |-> IF getUserType(username) = "STU"
                      THEN STULICENSE ELSE EMPLICENSE] >>,
     removeLicenses |-> << >>]

updateBody(row, newUpn) ==
    [userPrincipalName |-> newUpn,
     accountEnabled |-> accountEnabled(row.loginDisabled),
     givenName |-> row.givenName, displayName |-> row.fullName,
     surname |-> row.sn, mailNickname |-> row.newusername,
     department |-> row.primO]

tokenBody ==
    [redirect_uri |-> "http://127.0.0.1:8000",
     grant_type |-> "client_credentials", client_id |-> "",
     client_secret |-> "", resource |-> "https://graph.windows.net/"]

NoBody == [empty |-> TRUE]

\* ------------------------------------------------------------------- state
Init ==
    /\ reader \in Inputs
    /\ pc = "start"
    /\ i = 1
    /\ ACCESS_TOKEN = None
    /\ newupn = Unbound
    /\ output = << >>
    /\ calls = << >>
    /\ authLog = << >>
    /\ files = "unopened"

\* variant: the result is kept back instead of being written at once
Finish_Deferred(res) ==
    /\ output' = output
    /\ i' = i + 1
    /\ pc' = "loop"
    /\ newupn' = Unbound

\* the handler returned res: main writes the row and the loop moves on
Finish(res) ==
    /\ output' = Append(output, <<reader[i].action, reader[i].username, res>>)
    /\ i' = i + 1
    /\ pc' = "loop"
    /\ newupn' = Unbound

\* variant: the cached token is not consulted before connecting
Enter_AlwaysConnect ==
    /\ pc' = "auth"
    /\ UNCHANGED <<i, output, newupn>>

\* the handler passed its validation: token check, then the first call
Enter ==
    /\ pc' = IF Truthy(ACCESS_TOKEN) THEN "find" ELSE "auth"
    /\ UNCHANGED <<i, output, newupn>>

AtRow == pc = "loop" /\ i <= Len(reader)

\* ------------------------------------------------------------------- main
\* variant: the IOError of open is swallowed and the loop is entered
OpenFiles_IgnoresFailure ==
    /\ pc = "start"
    /\ \E outcome \in {"ok", "input IOError", "output IOError"} :
          /\ pc' = "loop"
          /\ files' = IF outcome = "ok" THEN "open" ELSE outcome
    /\ UNCHANGED <<reader, i, ACCESS_TOKEN, newupn, output, calls, authLog>>

\* open(in_file), open(out_file), json.load, header row; when an open
\* raises IOError the finally clause closes a file that was never bound
OpenFiles ==
    /\ pc = "start"
    /\ \E outcome \in {"ok", "input IOError", "output IOError"} :
          /\ pc' = IF outcome = "ok" THEN "loop" ELSE "crashed"
          /\ files' = IF outcome = "ok" THEN "open" ELSE outcome
    /\ UNCHANGED <<reader, i, ACCESS_TOKEN, newupn, output, calls, authLog>>

\* a row[key] lookup raises: the except clause around the loop ends the run
RowException ==
    /\ AtRow
    /\ RaisesKeyError(reader[i])
    /\ pc' = "done"
    /\ calls' = << >>
    /\ files' = "closed"
    /\ UNCHANGED <<reader, i, ACCESS_TOKEN, newupn, output, authLog>>

DispatchCreate ==
    /\ AtRow
    /\ ~ RaisesKeyError(reader[i])
    /\ reader[i].action = "create"
    /\ calls' = << >>
    /\ LET missing == MissingItems(createParams(reader[i]))
       IN  IF missing # {}
           THEN \E item \in missing : Finish(MissingResult(item))
           ELSE Enter
    /\ UNCHANGED <<reader, ACCESS_TOKEN, authLog, files>>

DispatchUpdate ==
    /\ AtRow
    /\ ~ RaisesKeyError(reader[i])
    /\ reader[i].action = "update"
    /\ calls' = << >>
    /\ LET missing == MissingItems(updateParams(reader[i]))
       IN  IF missing # {}
           THEN \E item \in missing : Finish(MissingResult(item))
           ELSE Enter
    /\ UNCHANGED <<reader, ACCESS_TOKEN, authLog, files>>

DispatchDelete ==
    /\ AtRow
    /\ ~ RaisesKeyError(reader[i])
    /\ reader[i].action = "delete"
    /\ calls' = << >>
    /\ LET missing == MissingItems(deleteParams(reader[i]))
       IN  IF missing # {}
           THEN \E item \in missing : Finish(MissingResult(item))
           ELSE Enter
    /\ UNCHANGED <<reader, ACCESS_TOKEN, authLog, files>>

\* variant: an unrecognized action goes through the token check
DispatchUnrecognized_Connects ==
    /\ AtRow
    /\ ~ RaisesKeyError(reader[i])
    /\ reader[i].action \notin {"create", "update", "delete"}
    /\ calls' = << >>
    /\ Enter
    /\ UNCHANGED <<reader, ACCESS_TOKEN, authLog, files>>

DispatchUnrecognized ==
    /\ AtRow
    /\ ~ RaisesKeyError(reader[i])
    /\ reader[i].action \notin {"create", "update", "delete"}
    /\ calls' = << >>
    /\ Finish(UnrecognizedError)
    /\ UNCHANGED <<reader, ACCESS_TOKEN, authLog, files>>

\* the for loop is exhausted: finally clause, return
LoopExit ==
    /\ pc = "loop"
    /\ i > Len(reader)
    /\ pc' = "done"
    /\ files' = "closed"
    /\ UNCHANGED <<reader, i, ACCESS_TOKEN, newupn, output, calls, authLog>>

\* ----------------------------------------------- create, update, delete
\* "if not ACCESS_TOKEN: graphConnect()" and the test that follows it
TokenExchange ==
    /\ pc = "auth"
    /\ \E reply \in AuthReplies :
        LET tok == graphConnect(ACCESS_TOKEN, reply)
        IN  /\ calls' = Append(calls,
                   Request(LoginHost, "POST", TokenPath, None, tokenBody,
                           reply))
            /\ authLog' = Append(authLog, reply)
            /\ ACCESS_TOKEN' = tok
            /\ IF tokenCheck(tok) # ""
               THEN Finish(tokenCheck(tok))
               ELSE pc' = "find" /\ UNCHANGED <<i, output, newupn>>
    /\ UNCHANGED <<reader, files>>

\* GET /users/upn sent by findUser
Lookup(upn, reply) ==
    Request(GraphHost, "GET", UserPath(upn), ACCESS_TOKEN, NoBody, reply)

create_findUser ==
    /\ pc = "find"
    /\ reader[i].action = "create"
    /\ \E reply \in GraphReplies :
        /\ calls' = Append(calls, Lookup(Upn(reader[i].username), reply))
        /\ IF createLookup(findUser(reply)) # ""
           THEN Finish(createLookup(findUser(reply)))
           ELSE pc' = "submit" /\ UNCHANGED <<i, output, newupn>>
    /\ UNCHANGED <<reader, ACCESS_TOKEN, authLog, files>>

create_post ==
    /\ pc = "submit"
    /\ reader[i].action = "create"
    /\ \E reply \in GraphReplies :
        /\ calls' = Append(calls,
               Request(GraphHost, "POST", UsersPath, ACCESS_TOKEN,
                       createBody(reader[i]), reply))
        /\ IF createResult(reply) # ""
           THEN Finish(createResult(reply))
           ELSE pc' = "license" /\ UNCHANGED <<i, output, newupn>>
    /\ UNCHANGED <<reader, ACCESS_TOKEN, authLog, files>>

create_assignLicense ==
    /\ pc = "license"
    /\ reader[i].action = "create"
    /\ \E reply \in GraphReplies :
        /\ calls' = Append(calls,
               Request(GraphHost, "POST",
                       LicensePath(Upn(reader[i].username)), ACCESS_TOKEN,
                       licenseBody(reader[i].username), reply))
        /\ Finish(licenseResult(reply))
    /\ UNCHANGED <<reader, ACCESS_TOKEN, authLog, files>>

\* update's first findUser; with newusername = username the request body
\* then reads newupn, which was never assigned, and the except clause of
\* the try block turns the NameError into the result
update_findUser ==
    /\ pc = "find"
    /\ reader[i].action = "update"
    /\ \E reply \in GraphReplies :
        /\ calls' = Append(calls, Lookup(Upn(reader[i].username), reply))
        /\ IF updateLookup(findUser(reply)) # ""
           THEN Finish(updateLookup(findUser(reply)))
           ELSE IF reader[i].username # reader[i].newusername
           THEN /\ newupn' = Upn(reader[i].newusername)
                /\ pc' = "find2"
                /\ UNCHANGED <<i, output>>
           ELSE IF newupn = Unbound
           THEN Finish(updateResult(Exc))
           ELSE pc' = "submit" /\ UNCHANGED <<i, output, newupn>>
    /\ UNCHANGED <<reader, ACCESS_TOKEN, authLog, files>>

\* update's findUser(newupn)
update_findNewUser ==
    /\ pc = "find2"
    /\ reader[i].action = "update"
    /\ \E reply \in GraphReplies :
        /\ calls' = Append(calls, Lookup(newupn, reply))
        /\ IF renameLookup(findUser(reply)) # ""
           THEN Finish(renameLookup(findUser(reply)))
           ELSE pc' = "submit" /\ UNCHANGED <<i, output, newupn>>
    /\ UNCHANGED <<reader, ACCESS_TOKEN, authLog, files>>

update_patch ==
    /\ pc = "submit"
    /\ reader[i].action = "update"
    /\ \E reply \in GraphReplies :
        /\ calls' = Append(calls,
               Request(GraphHost, "PATCH", UserPath(Upn(reader[i].username)),
                       ACCESS_TOKEN, updateBody(reader[i], newupn), reply))
        /\ Finish(updateResult(reply))
    /\ UNCHANGED <<reader, ACCESS_TOKEN, authLog, files>>

delete_findUser ==
    /\ pc = "find"
    /\ reader[i].action = "delete"
    /\ \E reply \in GraphReplies :
        /\ calls' = Append(calls, Lookup(Upn(reader[i].username), reply))
        /\ IF deleteLookup(findUser(reply)) # ""
           THEN Finish(deleteLookup(findUser(reply)))
           ELSE pc' = "submit" /\ UNCHANGED <<i, output, newupn>>
    /\ UNCHANGED <<reader, ACCESS_TOKEN, authLog, files>>

\* variant: a DELETE that did not answer 204 is sent again
delete_request_Retries ==
    /\ pc = "submit"
    /\ reader[i].action = "delete"
    /\ \E reply \in GraphReplies :
        /\ calls' = Append(calls,
               Request(GraphHost, "DELETE",
                       UserPath(Upn(reader[i].username)), ACCESS_TOKEN,
                       NoBody, reply))
        /\ IF reply.exc \/ reply.status # 204
           THEN UNCHANGED <<pc, i, output, newupn>>
           ELSE Finish(deleteResult(reply))
    /\ UNCHANGED <<reader, ACCESS_TOKEN, authLog, files>>

delete_request ==
    /\ pc = "submit"
    /\ reader[i].action = "delete"
    /\ \E reply \in GraphReplies :
        /\ calls' = Append(calls,
               Request(GraphHost, "DELETE",
                       UserPath(Upn(reader[i].username)), ACCESS_TOKEN,
                       NoBody, reply))
        /\ Finish(deleteResult(reply))
    /\ UNCHANGED <<reader, ACCESS_TOKEN, authLog, files>>

Next ==
    \/ OpenFiles
    \/ RowException
    \/ DispatchCreate
    \/ DispatchUpdate
    \/ DispatchDelete
    \/ DispatchUnrecognized
    \/ LoopExit
    \/ TokenExchange
    \/ create_findUser
    \/ create_post
    \/ create_assignLicense
    \/ update_findUser
    \/ update_findNewUser
    \/ update_patch
    \/ delete_findUser
    \/ delete_request

Spec == Init /\ [][Next]_vars

\* ------------------------------------------------------------ observation
\* a handler is between two network calls of row i
InRow == pc \in {"auth", "find", "find2", "submit", "license"}

\* row i-1 has just been handled and written; calls holds its requests
RowDone == i > 1 /\ (pc = "loop" \/ (pc = "done" /\ i > Len(reader)))

LastRow == reader[i - 1]
LastResult == output[i - 1][3]

IsSuccess(res) == StartsWith(res, "SUCCESS")
IsError(res) == StartsWith(res, "ERROR")

\* the keys whose values a handler requires to be non-empty, and the names
\* its parameters give them
RequiredKeys(action) ==
    IF action = "create" THEN AllKeys \ {"action", "newusername"}
    ELSE IF action = "update" THEN AllKeys \ {"action", "UDCid", "userPassword"}
    ELSE IF action = "delete" THEN {"username"}
    ELSE {}
EmptyKeys(row) == { k \in RequiredKeys(row.action) : row[k] = "" }
ParamName(k) == IF k = "primO" THEN "ou" ELSE k

\* a login reply that leaves a usable token
GrantsToken(reply) ==
    ~ reply.exc /\ reply.status = 200 /\ reply.body \notin {"", NoAccessToken}

\* positions in calls, by kind of request
TokenCalls == { n \in 1..Len(calls) : calls[n].host = LoginHost }
GraphCalls == { n \in 1..Len(calls) : calls[n].host = GraphHost }
LookupCalls(upn) ==
    { n \in GraphCalls : calls[n].method = "GET"
                           /\ calls[n].path = UserPath(upn) }
CreateCalls ==
    { n \in GraphCalls : calls[n].method = "POST"
                           /\ calls[n].path = UsersPath }
LicenseCalls(upn) ==
    { n \in GraphCalls : calls[n].method = "POST"
                           /\ calls[n].path = LicensePath(upn) }
PatchCalls == { n \in GraphCalls : calls[n].method = "PATCH" }
DeleteCalls == { n \in GraphCalls : calls[n].method = "DELETE" }

\* the lookup of upn answered, and findUser reported the user as existing
ReportedExisting(upn) ==
    \E n \in LookupCalls(upn) : findUser(calls[n].reply)
ReportedAbsent(upn) ==
    \E n \in LookupCalls(upn) : ~ findUser(calls[n].reply)

\* ------------------------------------------------------------------ claims

\* C1: when a row raises (a key its action needs is absent), the run still
\* ends with a result row for every input row, and the row that raised has
\* an ERROR result.
C1_RowExceptionContained ==
    pc = "done" =>
        \A k \in 1..Len(reader) :
            /\ k <= Len(output)
            /\ RaisesKeyError(reader[k]) => IsError(output[k][3])

\* C2: when the run finishes, the output holds exactly one row per input
\* row, in input order, each with that row's action and username.
C2_OneRowPerInput ==
    pc = "done" =>
        /\ Len(output) = Len(reader)
        /\ \A k \in 1..Len(reader) :
              /\ "action" \in DOMAIN reader[k]
              /\ "username" \in DOMAIN reader[k]
              /\ output[k][1] = reader[k].action
              /\ output[k][2] = reader[k].username

\* C3: a valid update row whose current principal name is found, with
\* newusername equal to username or with the target not found, sends
\* exactly one PATCH for the current principal name and its result is
\* SUCCESS on 204 and ERROR otherwise.
C3_UpdateSendsOnePatch ==
    ( /\ RowDone
      /\ LastRow.action = "update"
      /\ EmptyKeys(LastRow) = {}
      /\ \E n \in LookupCalls(Upn(LastRow.username)) :
            calls[n].reply = Reply(200, "")
      /\ \/ LastRow.newusername = LastRow.username
         \/ \E n \in LookupCalls(Upn(LastRow.newusername)) :
               ~ calls[n].reply.exc /\ calls[n].reply.status # 200 )
    => /\ Cardinality(PatchCalls) = 1
       /\ \A n \in PatchCalls :
            /\ calls[n].path = UserPath(Upn(LastRow.username))
            /\ IF ~ calls[n].reply.exc /\ calls[n].reply.status = 204
               THEN IsSuccess(LastResult) ELSE IsError(LastResult)

\* C4: a lookup that did not answer 200 (another status, or a transport
\* error) counts as "absent": create goes on to its POST, update and delete
\* end with the "not found" error.
C4_FailedLookupMeansAbsent ==
    ( /\ RowDone
      /\ LastRow.action \in {"create", "update", "delete"}
      /\ \E n \in LookupCalls(Upn(LastRow.username)) :
            calls[n].reply.exc \/ calls[n].reply.status # 200 )
    => IF LastRow.action = "create"
       THEN CreateCalls # {} /\ LastResult # TakenError
       ELSE LastResult = NotFoundError
            /\ PatchCalls = {} /\ DeleteCalls = {}

\* C5 as stated: at most one token exchange is sent in a run.
C5_AtMostOneTokenExchange == Len(authLog) <= 1

\* C5 amended: a token exchange is sent only while no token is cached, at
\* most once per row: every exchange of a run but the last one failed, so at
\* most one exchange of a run yields a token.
C5_OnlyLastExchangeGrants ==
    /\ \A k \in 1..(Len(authLog) - 1) : ~ GrantsToken(authLog[k])
    /\ Cardinality(TokenCalls) <= 1
    /\ Truthy(ACCESS_TOKEN) =>
          (authLog # << >> /\ GrantsToken(authLog[Len(authLog)]))

C5_Witness ==
    /\ Len(authLog) = 2
    /\ GrantsToken(authLog[2])
    /\ RowDone
    /\ i = 3

\* C6: no request goes to the Graph API without a token; a row whose token
\* exchange fails ends with the authentication error, sends no Graph
\* request, and the loop goes on with the next row.
C6_NoGraphCallWithoutToken ==
    /\ [] ( /\ \A n \in GraphCalls : Truthy(calls[n].bearer)
            /\ pc \in {"find", "find2", "submit", "license"}
                  => Truthy(ACCESS_TOKEN) )
    /\ [][ (pc = "auth" /\ ~ Truthy(ACCESS_TOKEN'))
             => /\ pc' = "loop"
                /\ i' = i + 1
                /\ output' = Append(output,
                      <<reader[i].action, reader[i].username, AuthError>>)
                /\ \A n \in 1..Len(calls') : calls'[n].host # GraphHost ]_vars

C6_Witness ==
    /\ RowDone
    /\ i = 3
    /\ output[1][3] = AuthError
    /\ GraphCalls # {}

\* C7: a create, update or delete row with an empty required field sends no
\* request at all and its result is the ERROR naming one of its empty
\* fields.
C7_EmptyFieldNoNetwork ==
    ( /\ RowDone
      /\ LastRow.action \in {"create", "update", "delete"}
      /\ EmptyKeys(LastRow) # {} )
    => /\ calls = << >>
       /\ IsError(LastResult)
       /\ \E k \in EmptyKeys(LastRow) :
            LastResult = "ERROR: Missing an expected input value for "
                           \o ParamName(k) \o " in input file."

C7_Witness ==
    /\ RowDone
    /\ LastRow.action = "update"
    /\ Cardinality(EmptyKeys(LastRow)) >= 2
    /\ LastRow.primO = ""
    /\ calls = << >>
    /\ IsError(LastResult)

\* C8: a valid create row whose principal name the lookup reports as
\* existing ends with the "already taken" error and sends neither the
\* create POST nor the license POST.
C8_CreateExistingStops ==
    /\ ( /\ RowDone
         /\ LastRow.action = "create"
         /\ ReportedExisting(Upn(LastRow.username)) )
       => /\ LastResult = TakenError
          /\ CreateCalls = {}
          /\ LicenseCalls(Upn(LastRow.username)) = {}
    /\ (InRow /\ reader[i].action = "create")
       => ~ ReportedExisting(Upn(reader[i].username))

C8_Witness ==
    /\ RowDone
    /\ LastRow.action = "create"
    /\ \E n \in LookupCalls(Upn(LastRow.username)) :
          ~ calls[n].reply.exc /\ calls[n].reply.status = 200
    /\ LastResult = TakenError

\* C9 as stated: a valid create row with a fresh username ends with SUCCESS
\* after a create POST followed by a license POST.
C9_FreshCreateSucceeds ==
    ( /\ RowDone
      /\ LastRow.action = "create"
      /\ EmptyKeys(LastRow) = {}
      /\ ReportedAbsent(Upn(LastRow.username)) )
    => /\ IsSuccess(LastResult)
       /\ \E m \in CreateCalls :
            \E n \in LicenseCalls(Upn(LastRow.username)) : m < n

\* C9 amended: a valid create row with a fresh username whose create POST
\* answers 201 sends the license POST right after the create POST, and its
\* result is SUCCESS exactly when the license POST answers with a status.
C9_CreatedThenLicensed ==
    ( /\ RowDone
      /\ LastRow.action = "create"
      /\ EmptyKeys(LastRow) = {}
      /\ ReportedAbsent(Upn(LastRow.username))
      /\ \E m \in CreateCalls :
            ~ calls[m].reply.exc /\ calls[m].reply.status = 201 )
    => /\ Cardinality(CreateCalls) = 1
       /\ Cardinality(LicenseCalls(Upn(LastRow.username))) = 1
       /\ \A m \in CreateCalls :
            \A n \in LicenseCalls(Upn(LastRow.username)) :
               /\ n = m + 1
               /\ n = Len(calls)
               /\ IsSuccess(LastResult) <=> ~ calls[n].reply.exc

C9_Witness ==
    /\ RowDone
    /\ LastRow.action = "create"
    /\ ReportedAbsent(Upn(LastRow.username))
    /\ \E m \in CreateCalls : calls[m].reply = Reply(201, "")
    /\ \E n \in LicenseCalls(Upn(LastRow.username)) :
          calls[n].reply = Reply(200, "")
    /\ IsSuccess(LastResult)

\* C10: after a create POST that answered 201, a license POST answering
\* another status than 200 gives the SUCCESS result "user added but with no
\* licenses", not an ERROR; answering 200 it gives the full SUCCESS result.
C10_LicenseFailureIsSuccess ==
    ( /\ RowDone
      /\ LastRow.action = "create"
      /\ \E m \in CreateCalls :
            ~ calls[m].reply.exc /\ calls[m].reply.status = 201 )
    => \A n \in LicenseCalls(Upn(LastRow.username)) :
          ~ calls[n].reply.exc =>
             IF calls[n].reply.status = 200
             THEN LastResult = "SUCCESS: user was created in o365."
             ELSE /\ LastResult =
                       "SUCCESS: user added but with no licenses in o365."
                  /\ IsSuccess(LastResult)
                  /\ ~ IsError(LastResult)

C10_Witness ==
    /\ RowDone
    /\ LastRow.action = "create"
    /\ \E m \in CreateCalls : calls[m].reply = Reply(201, "")
    /\ \E n \in LicenseCalls(Upn(LastRow.username)) :
          calls[n].reply = Reply(404, "")
    /\ IsSuccess(LastResult)

\* the row whose requests calls holds, when there is one
CallsRow == IF InRow THEN reader[i] ELSE LastRow

\* license POSTs, whatever their principal name
AnyLicenseCalls ==
    { n \in GraphCalls : calls[n].method = "POST"
                           /\ calls[n].path # UsersPath }

\* C11: a valid update row whose current principal name the lookup does not
\* find ends with the "not found" error and sends no PATCH.
C11_UpdateAbsentStops ==
    /\ ( /\ RowDone
         /\ LastRow.action = "update"
         /\ EmptyKeys(LastRow) = {}
         /\ ReportedAbsent(Upn(LastRow.username)) )
       => /\ LastResult = NotFoundError
          /\ PatchCalls = {}
          /\ Cardinality(GraphCalls) = 1
    /\ (pc \in {"find2", "submit"} /\ reader[i].action = "update")
       => ~ ReportedAbsent(Upn(reader[i].username))

C11_Witness ==
    /\ RowDone
    /\ LastRow.action = "update"
    /\ LastRow.newusername # LastRow.username
    /\ \E n \in LookupCalls(Upn(LastRow.username)) :
          calls[n].reply = Reply(404, "")
    /\ LastResult = NotFoundError

\* C12: a valid update row that renames, whose current principal name
\* exists and whose target principal name the lookup reports as existing,
\* ends with the "already taken" error and sends no PATCH.
C12_RenameTakenStops ==
    /\ ( /\ RowDone
         /\ LastRow.action = "update"
         /\ EmptyKeys(LastRow) = {}
         /\ LastRow.newusername # LastRow.username
         /\ ReportedExisting(Upn(LastRow.username))
         /\ ReportedExisting(Upn(LastRow.newusername)) )
       => /\ LastResult = TakenError
          /\ PatchCalls = {}
    /\ (pc = "submit" /\ reader[i].action = "update")
       => ~ ReportedExisting(Upn(reader[i].newusername))

C12_Witness ==
    /\ RowDone
    /\ LastRow.action = "update"
    /\ LastRow.newusername # LastRow.username
    /\ \E n \in LookupCalls(Upn(LastRow.username)) :
          calls[n].reply = Reply(200, "")
    /\ \E n \in LookupCalls(Upn(LastRow.newusername)) :
          calls[n].reply = Reply(200, "")
    /\ LastResult = TakenError

\* C13: a delete row on a user the lookup reports as existing sends exactly
\* one DELETE; its result is SUCCESS when the DELETE answers 204 and ERROR
\* when it answers anything else.
C13_DeleteSendsOneDelete ==
    ( /\ RowDone
      /\ LastRow.action = "delete"
      /\ ReportedExisting(Upn(LastRow.username)) )
    => /\ Cardinality(DeleteCalls) = 1
       /\ \A n \in DeleteCalls :
            /\ calls[n].path = UserPath(Upn(LastRow.username))
            /\ IF ~ calls[n].reply.exc /\ calls[n].reply.status = 204
               THEN IsSuccess(LastResult) /\ ~ IsError(LastResult)
               ELSE IsError(LastResult) /\ ~ IsSuccess(LastResult)

C13_Witness ==
    /\ RowDone
    /\ LastRow.action = "delete"
    /\ \E n \in DeleteCalls : calls[n].reply = Reply(200, "")
    /\ IsError(LastResult)

\* C14: a row whose action is none of create, update, delete gets the result
\* "ERROR: Unrecognized action." and causes no network activity: no token
\* exchange even while no token is cached, and no Graph request.
C14_UnrecognizedNoNetwork ==
    /\ [] ( ( /\ InRow \/ RowDone
              /\ CallsRow.action \notin {"create", "update", "delete"} )
            => /\ RowDone
               /\ LastResult = UnrecognizedError
               /\ calls = << >> )
    /\ [][ ( /\ AtRow
             /\ "action" \in DOMAIN reader[i]
             /\ reader[i].action \notin {"create", "update", "delete"} )
           => /\ calls' = << >>
              /\ authLog' = authLog
              /\ ACCESS_TOKEN' = ACCESS_TOKEN
              /\ pc' \in {"loop", "done"} ]_vars

C14_Witness ==
    /\ RowDone
    /\ LastRow.action = "bogus"
    /\ ~ Truthy(ACCESS_TOKEN)
    /\ authLog = << >>
    /\ LastResult = UnrecognizedError

\* C15: when opening the input or the output file fails, no row is
\* dispatched, no request is sent and no result row is written.
C15_OpenFailureAborts ==
    files \in {"input IOError", "output IOError"}
    => /\ pc = "crashed"
       /\ i = 1
       /\ output = << >>
       /\ calls = << >>
       /\ authLog = << >>
       /\ ACCESS_TOKEN = None

C15_Witness ==
    /\ files = "output IOError"
    /\ pc = "crashed"
    /\ Len(reader) = 2

\* C16: a license POST is sent only right after a create POST of the same
\* row answered 201; when the create POST answers anything else, no license
\* POST is sent for the row and its result is an ERROR.
C16_LicenseOnlyAfter201 ==
    /\ \A n \in AnyLicenseCalls :
          /\ n - 1 \in CreateCalls
          /\ calls[n - 1].reply = Reply(201, "")
          /\ CallsRow.action = "create"
          /\ calls[n].path = LicensePath(Upn(CallsRow.username))
    /\ ( /\ RowDone
         /\ \E m \in CreateCalls : calls[m].reply # Reply(201, "") )
       => /\ AnyLicenseCalls = {}
          /\ IsError(LastResult)
    /\ pc = "license" => \E m \in CreateCalls : calls[m].reply = Reply(201, "")

C16_Witness ==
    /\ RowDone
    /\ LastRow.action = "create"
    /\ \E m \in CreateCalls : calls[m].reply = Reply(200, "")
    /\ AnyLicenseCalls = {}
    /\ IsError(LastResult)

\* C17: a delete row with a non-empty username whose principal name the
\* lookup does not find ends with the "not found" error and sends no DELETE.
C17_DeleteAbsentStops ==
    /\ ( /\ RowDone
         /\ LastRow.action = "delete"
         /\ LastRow.username # ""
         /\ ReportedAbsent(Upn(LastRow.username)) )
       => /\ LastResult = NotFoundError
          /\ DeleteCalls = {}
    /\ (pc = "submit" /\ reader[i].action = "delete")
       => ~ ReportedAbsent(Upn(reader[i].username))

C17_Witness ==
    /\ RowDone
    /\ LastRow.action = "delete"
    /\ \E n \in LookupCalls(Upn(LastRow.username)) :
          calls[n].reply = Reply(404, "")
    /\ LastResult = NotFoundError

\* C18: once a token exchange has left a token in the cache, the cached
\* token never changes and no further token exchange is sent, whatever the
\* Graph API answers afterwards.
C18_CachedTokenIsKept ==
    [][ Truthy(ACCESS_TOKEN)
        => /\ ACCESS_TOKEN' = ACCESS_TOKEN
           /\ authLog' = authLog
           /\ \A n \in 1..Len(calls') : calls'[n].host = LoginHost
                 => (n <= Len(calls) /\ calls[n] = calls'[n])
           /\ pc' # "auth" ]_vars

C18_Witness ==
    /\ RowDone
    /\ i = 3
    /\ Truthy(ACCESS_TOKEN)
    /\ Len(authLog) = 1
    /\ TokenCalls = {}
    /\ \E n \in GraphCalls : calls[n].reply.exc
    /\ IsError(output[1][3])

\* C19: rows are handled one after another: whenever a request is sent, the
\* result rows of all earlier rows are already written, and at every point
\* the output holds exactly the results of the rows handled so far, in
\* input order.
C19_RowsInSequence ==
    /\ [] ( /\ Len(output) = i - 1
            /\ i <= Len(reader) + 1
            /\ \A k \in 1..Len(output) :
                  /\ output[k][1] = reader[k].action
                  /\ output[k][2] = reader[k].username
            /\ calls # << >> => (InRow \/ RowDone) )
    /\ [][ /\ Len(output') \in {Len(output), Len(output) + 1}
           /\ SubSeq(output', 1, Len(output)) = output
           /\ (calls' # calls /\ calls' # << >>)
                => /\ InRow
                   /\ Len(output) = i - 1
                   /\ calls' = Append(calls, calls'[Len(calls')])
           /\ (InRow /\ i' # i) => Len(output') = i ]_vars

C19_Witness ==
    /\ InRow
    /\ i = 2
    /\ Len(output) = 1
    /\ GraphCalls # {}

\* C20: nothing is retried: a row sends at most one create POST, one license
\* POST, one PATCH and one DELETE, and only the mutating requests of its own
\* action.
C20_NoRetryOwnKindOnly ==
    calls # << >> =>
        /\ InRow \/ RowDone
        /\ Cardinality(CreateCalls) <= 1
        /\ Cardinality(AnyLicenseCalls) <= 1
        /\ Cardinality(PatchCalls) <= 1
        /\ Cardinality(DeleteCalls) <= 1
        /\ \A n \in GraphCalls :
              calls[n].method \in {"GET", "POST", "PATCH", "DELETE"}
        /\ CallsRow.action = "create" => PatchCalls = {} /\ DeleteCalls = {}
        /\ CallsRow.action = "update"
              => CreateCalls = {} /\ AnyLicenseCalls = {} /\ DeleteCalls = {}
        /\ CallsRow.action = "delete"
              => CreateCalls = {} /\ AnyLicenseCalls = {} /\ PatchCalls = {}
        /\ CallsRow.action \in {"create", "update", "delete"}

C20_Witness ==
    /\ RowDone
    /\ LastRow.action = "delete"
    /\ \E n \in DeleteCalls : calls[n].reply.exc
    /\ Cardinality(DeleteCalls) = 1

\* C21: in every PATCH body sent by update, accountEnabled is "False" when
\* the row's loginDisabled is the string "True", and "True" for every other
\* loginDisabled value.
C21_AccountEnabledFlipped ==
    \A n \in PatchCalls :
        /\ CallsRow.action = "update"
        /\ CallsRow.loginDisabled = "True"
              <=> calls[n].body.accountEnabled = "False"
        /\ CallsRow.loginDisabled # "True"
              <=> calls[n].body.accountEnabled = "True"

C21_Witness ==
    /\ RowDone
    /\ LastRow.action = "update"
    /\ LastRow.loginDisabled = "true"
    /\ \E n \in PatchCalls : calls[n].body.accountEnabled = "True"

\* C22: a create row whose result is an ERROR has created no user: no
\* create POST of the row answered 201, also when the license POST that
\* follows fails with a transport error.
C22_ErrorMeansNotCreated ==
    ( /\ RowDone
      /\ LastRow.action = "create"
      /\ IsError(LastResult) )
    => \A m \in CreateCalls : calls[m].reply # Reply(201, "")

====
